---- MODULE Spec2Model ----
(***************************************************************************)
(* warcdb: ingestion of WARC records into per-type SQLite tables.          *)
(*                                                                         *)
(* The module models src/warcdb/__init__.py:                               *)
(*   - record_as_dict (the @cache-memoized ArcWarcRecord.as_dict),         *)
(*   - headers_to_json (StatusAndHeaders.to_json),                         *)
(*   - WarcDB.__iadd__ (the record router, `db += r`),                     *)
(*   - import_ (the CLI driver that walks the files of warc_path).         *)
(*                                                                         *)
(* Two specifications share the definitions:                               *)
(*   Spec     the `import` command run on two files, then run again on the *)
(*            same files and the same database;                            *)
(*   SpecRow  one record instance used through the library interface:      *)
(*            r.as_dict(...) under every call spelling, and db += r.       *)
(***************************************************************************)
EXTENDS Integers, Sequences, FiniteSets, TLC

VARIABLES
    db,       \* the SQLite database: table name -> [exists, columns, rows]
    cache,    \* functools.cache of record_as_dict: call key -> returned dict
    files,    \* files[f]: the records of warc_path[f] the parser has yielded
    fileNo,   \* index in warc_path of the file to_import has open (0: none yet)
    recNo,    \* number of records of that file already yielded in this run
    run,      \* which invocation of the import command this is (1 or 2)
    pc,       \* "reading", "raised" (exception left import_), "exit0", "api"
    error,    \* the exception that ended the run, "none" if none
    db1,      \* the database as the first invocation left it
    error1,   \* the exception that ended the first invocation
    last,     \* <<>> or <<the most recent `db += r`>>: record, store before, outcome
    rec,      \* SpecRow: the record instance under test
    stream,   \* SpecRow: bytes its content stream has yet to deliver
    ret,      \* SpecRow: <<>> or <<the most recent as_dict call and its result>>
    ncalls,   \* SpecRow: number of library calls made on the instance
    nreads,   \* SpecRow: number of read() calls its content stream has served
    derived   \* SpecRow: <<http flag, payload flag>> -> the row first derived with them

vars == <<db, cache, files, fileNo, recNo, run, pc, error, db1, error1, last,
          rec, stream, ret, ncalls, nreads, derived>>

(***************************************************************************)
(* Bounds of the model.                                                    *)
(***************************************************************************)
\* records the first invocation reads over all files
MaxLen == 4
\* library calls made on the one instance of SpecRow
MaxCalls == 2
\* bytes of the content stream of the instance of SpecRow
MaxPayloadLen == 2
\* WARC headers of the instance of SpecRow after its WARC-Record-ID
MaxExtraHeaders == 2

(***************************************************************************)
(* Generic helpers.                                                        *)
(***************************************************************************)
EmptyFn == [x \in {} |-> TRUE]

Update(f, k, v) == [x \in (DOMAIN f) \cup {k} |-> IF x = k THEN v ELSE f[x]]

SeqsUpTo(S, n) == UNION {[1..k -> S] : k \in 0..n}

(***************************************************************************)
(* Values of row fields.  Python str, bytes, None and the JSON text made   *)
(* by dumps() are kept apart by a kind tag.                                *)
(***************************************************************************)
Str(s) == [kind |-> "str", val |-> <<s>>]
Bytes(b) == [kind |-> "bytes", val |-> b]
None == [kind |-> "null", val |-> <<>>]

(***************************************************************************)
(* warcio objects.  StatusAndHeaders.headers is a list of (name, value)    *)
(* pairs; a record without HTTP envelope has http_headers = None.          *)
(***************************************************************************)
NoHttp == [present |-> FALSE, statusline |-> "", headers |-> <<>>]

Http(hs) == [present |-> TRUE, statusline |-> "HTTP/1.1 200 OK", headers |-> hs]

\* bool(StatusAndHeaders): `if self.http_headers:` at line 50
Truthy(h) == h.present /\ (h.statusline # "" \/ h.headers # <<>>)

Supported == {"warcinfo", "request", "response", "metadata", "resource"}

Ids == {"urn:1", "urn:2"}

Warcinfo_ID == "urn:1"

HttpPairs == << <<"User-Agent", "x">>, <<"Accept", "*/*">> >>

\* A record as ArchiveIterator yields it from a file.
ArchiveRecord(t, id, conc) ==
    [rec_type |-> t,
     rec_headers |->
        <<  <<"WARC-Record-ID", id>> >>
        \o (IF t = "warcinfo" THEN <<>> ELSE << <<"WARC-Warcinfo-ID", Warcinfo_ID>> >>)
        \o (IF t \in {"warcinfo", "request"} THEN <<>>
            ELSE << <<"WARC-Concurrent-To", conc>> >>),
     http_headers |-> IF t \in {"request", "response"} THEN Http(HttpPairs) ELSE NoHttp,
     content |-> <<"x">>]

Records ==
    {ArchiveRecord(t, id, id) : t \in {"warcinfo", "request"}, id \in Ids}
    \cup {ArchiveRecord(t, id, conc) :
            t \in {"response", "metadata", "resource"}, id \in Ids, conc \in Ids}
    \cup {ArchiveRecord("revisit", "urn:1", "urn:1")}

(***************************************************************************)
(* headers_to_json, lines 31-32: dumps([{'header': h, 'value': v} ...]).   *)
(* The JSON text is determined by the ordered list h1, v1, h2, v2, ...     *)
(***************************************************************************)
headers_to_json(self) ==
    [kind |-> "json",
     val |-> [i \in 1..(2 * Len(self.headers)) |->
                IF i % 2 = 1 THEN self.headers[(i + 1) \div 2][1]
                ELSE self.headers[i \div 2][2]]]

\* mutant: only the first header of the record reaches the dict
DictOf_first(pairs) == [n \in {pairs[1][1]} |-> Str(pairs[1][2])]

\* dict(list of pairs), line 47: a later pair of the same name overwrites.
DictOf(pairs) ==
    [n \in {pairs[i][1] : i \in DOMAIN pairs} |->
        LET k == CHOOSE i \in DOMAIN pairs :
                    /\ pairs[i][1] = n
                    /\ \A j \in DOMAIN pairs : pairs[j][1] = n => j <= i
        IN Str(pairs[k][2])]

(***************************************************************************)
(* record_as_dict, lines 41-58, the body under @cache.  `s` is what the    *)
(* content stream still holds: content_stream().read() returns it (b'' for *)
(* a drained stream, no exception).                                        *)
(***************************************************************************)
record_as_dict(self, with_http_headers, with_payload, s) ==
    LET ret0 == DictOf(self.rec_headers)
        ret1 == IF with_http_headers
                THEN IF Truthy(self.http_headers)
                     THEN Update(ret0, "http_headers", headers_to_json(self.http_headers))
                     ELSE Update(ret0, "http_headers", None)
                ELSE ret0
    IN IF with_payload THEN Update(ret1, "payload", Bytes(s)) ELSE ret1

(***************************************************************************)
(* @cache, line 40.  functools.cache keys an entry by the call as written: *)
(* the positional arguments, then the keyword arguments in call order.     *)
(***************************************************************************)
Call(args, kwargs) == [args |-> args, kwargs |-> kwargs]

Bind(call, name, pos) ==
    IF Len(call.args) >= pos THEN call.args[pos]
    ELSE IF \E i \in DOMAIN call.kwargs : call.kwargs[i][1] = name
         THEN call.kwargs[CHOOSE i \in DOMAIN call.kwargs : call.kwargs[i][1] = name][2]
         ELSE FALSE

as_dict(c, s, self_id, self, call) ==
    LET key == <<self_id, call.args, call.kwargs>>
        h == Bind(call, "with_http_headers", 1)
        p == Bind(call, "with_payload", 2)
    IN IF key \in DOMAIN c
       THEN [ret |-> c[key], cache |-> c, stream |-> s, reads |-> 0]
       ELSE LET row == record_as_dict(self, h, p, s)
            IN [ret |-> row, cache |-> Update(c, key, row),
                stream |-> IF p THEN <<>> ELSE s,
                reads |-> IF p THEN 1 ELSE 0]

(***************************************************************************)
(* The store: sqlite_utils Table.insert(row, pk=, foreign_keys=,           *)
(* alter=True, ignore=True, columns=), as called at lines 160-210.         *)
(***************************************************************************)
TableNames == Supported

col_type_conversions ==
    [c \in {"Content-Length", "payload", "WARC-Date"} |->
        IF c = "Content-Length" THEN "int"
        ELSE IF c = "payload" THEN "str" ELSE "datetime"]

NoTable == [exists |-> FALSE, columns |-> {}, rows |-> <<>>]

EmptyStore == [t \in TableNames |-> NoTable]

HasPk(rows, pk, v) == \E i \in DOMAIN rows : rows[i][pk] = v

\* mutant: the table has no primary key to conflict on, every row is appended
insert_plain(rows, pk, row) == Append(rows, row)

\* mutant: replace=True instead of ignore=True, a conflicting row is overwritten
insert_or_replace(rows, pk, row) ==
    IF HasPk(rows, pk, row[pk])
    THEN [i \in DOMAIN rows |-> IF rows[i][pk] = row[pk] THEN row ELSE rows[i]]
    ELSE Append(rows, row)

\* ignore=True: INSERT OR IGNORE, a row whose primary key is stored is skipped
insert_or_ignore(rows, pk, row) ==
    IF HasPk(rows, pk, row[pk]) THEN rows ELSE Append(rows, row)

\* First insert into a missing table creates it; creation rejects a foreign
\* key whose referenced table has no such column (AlterError, nothing
\* written).  alter=True adds the row's new columns.  ignore=True: INSERT OR
\* IGNORE, a row whose primary key is already stored is skipped.
insert(d, table, row, pk, foreign_keys) ==
    LET t == d[table]
    IN IF ~t.exists
       THEN IF \E i \in DOMAIN foreign_keys :
                   foreign_keys[i][3] \notin d[foreign_keys[i][2]].columns
            THEN [db |-> d, error |-> "AlterError"]
            ELSE [db |-> [d EXCEPT ![table] =
                            [exists |-> TRUE,
                             columns |-> (DOMAIN row) \cup (DOMAIN col_type_conversions),
                             rows |-> <<row>>]],
                  error |-> "none"]
       ELSE [db |-> [d EXCEPT ![table] =
                       [exists |-> TRUE,
                        columns |-> t.columns \cup (DOMAIN row),
                        rows |-> insert_or_ignore(t.rows, pk, row)]],
             error |-> "none"]

(***************************************************************************)
(* WarcDB.__iadd__, lines 140-215.                                         *)
(***************************************************************************)
FkWarcinfo == <<"WARC-Warcinfo-ID", "warcinfo", "WARC-Record-ID">>

FkConcurrent(t) == <<"WARC-Concurrent-To", t, "WARC-Record-ID">>

\* as_dict(with_payload=True)
CallPayload == Call(<<>>, << <<"with_payload", TRUE>> >>)

\* as_dict(with_payload=True, with_http_headers=True)
CallPayloadHttp ==
    Call(<<>>, << <<"with_payload", TRUE>>, <<"with_http_headers", TRUE>> >>)

\* one branch of __iadd__: derive the row (argument evaluated first), insert
Branch(d, c, s, self_id, r, table, call, foreign_keys) ==
    LET a == as_dict(c, s, self_id, r, call)
        ins == insert(d, table, a.ret, "WARC-Record-ID", foreign_keys)
    IN [db |-> ins.db, cache |-> a.cache, stream |-> a.stream,
        error |-> ins.error, row |-> <<a.ret>>, reads |-> a.reads, call |-> <<call>>,
        inserts |-> << [table |-> table, foreign_keys |-> foreign_keys] >>]

\* mutant: an unsupported record is skipped without an exception
skip_unsupported(d, c, s) ==
    [db |-> d, cache |-> c, stream |-> s, error |-> "none",
     row |-> <<>>, reads |-> 0, call |-> <<>>, inserts |-> <<>>]

\* lines 212-214: raise ValueError, nothing derived, nothing inserted
raise_unsupported(d, c, s) ==
    [db |-> d, cache |-> c, stream |-> s, error |-> "ValueError",
     row |-> <<>>, reads |-> 0, call |-> <<>>, inserts |-> <<>>]

iadd(d, c, s, self_id, r) ==
    IF r.rec_type = "warcinfo"
    THEN Branch(d, c, s, self_id, r, "warcinfo", CallPayload, <<>>)
    ELSE IF r.rec_type = "request"
    THEN Branch(d, c, s, self_id, r, "request", CallPayloadHttp, <<FkWarcinfo>>)
    ELSE IF r.rec_type = "response"
    THEN Branch(d, c, s, self_id, r, "response", CallPayloadHttp,
                <<FkWarcinfo, FkConcurrent("request")>>)
    ELSE IF r.rec_type = "metadata"
    THEN Branch(d, c, s, self_id, r, "metadata", CallPayload,
                <<FkWarcinfo, FkConcurrent("response")>>)
    ELSE IF r.rec_type = "resource"
    THEN Branch(d, c, s, self_id, r, "resource", CallPayload,
                <<FkWarcinfo, FkConcurrent("metadata")>>)
    ELSE raise_unsupported(d, c, s)

\* what `db += r` leaves behind for the claims to look at
Outcome(r, before, o) ==
    << [rec |-> r, before |-> before, error |-> o.error, row |-> o.row,
        inserts |-> o.inserts] >>

(***************************************************************************)
(* import_, lines 239-252.                                                 *)
(***************************************************************************)
warc_path == <<"a.warc", "b.warc">>

NumFiles == Len(warc_path)

\* records of the files in the order to_import yields them
to_import == files[1] \o files[2]

\* mutant: the loop catches the exception and goes on with the next record
import_pc_continue(err) == "reading"

\* `for r in to_import(): db += r`: an exception leaves the loop and the command
import_pc(err) == IF err = "none" THEN "reading" ELSE "raised"

\* In the first run a file ends whenever the parser finds no further record;
\* in the second the same files end where they ended.
AtEOF == fileNo >= 1 /\ (run = 1 \/ recNo = Len(files[fileNo]))

Init ==
    /\ db = EmptyStore
    /\ cache = EmptyFn
    /\ files = [f \in 1..NumFiles |-> <<>>]
    /\ fileNo = 0
    /\ recNo = 0
    /\ run = 1
    /\ pc = "reading"
    /\ error = "none"
    /\ db1 = EmptyStore
    /\ error1 = "none"
    /\ last = <<>>
    /\ rec = ArchiveRecord("warcinfo", "urn:1", "urn:1")
    /\ stream = <<>>
    /\ ret = <<>>
    /\ ncalls = 0
    /\ nreads = 0
    /\ derived = EmptyFn

RowVars == <<rec, stream, ret, ncalls, nreads, derived>>

\* to_import, lines 245-246: the next path of warc_path is opened
OpenNext ==
    /\ pc = "reading"
    /\ fileNo < NumFiles
    /\ fileNo = 0 \/ AtEOF
    /\ fileNo' = fileNo + 1
    /\ recNo' = 0
    /\ UNCHANGED <<db, cache, files, run, pc, error, db1, error1, last>>
    /\ UNCHANGED RowVars

\* lines 247-252: the parser yields record r and the loop body runs db += r
Ingest(r) ==
    LET o == iadd(db, cache, r.content, <<run, fileNo, recNo + 1>>, r)
    IN /\ recNo' = recNo + 1
       /\ db' = o.db
       /\ cache' = o.cache
       /\ error' = o.error
       /\ pc' = import_pc(o.error)
       /\ last' = Outcome(r, db, o)
       /\ UNCHANGED <<fileNo, run, db1, error1>>
       /\ UNCHANGED RowVars

\* first run: the open file holds one more record
Record ==
    /\ pc = "reading"
    /\ run = 1
    /\ fileNo >= 1
    /\ Len(to_import) < MaxLen
    /\ \E r \in Records :
        /\ files' = [files EXCEPT ![fileNo] = Append(@, r)]
        /\ Ingest(r)

\* second run: the same file yields the same record again, as a new instance
Replay ==
    /\ pc = "reading"
    /\ run = 2
    /\ fileNo >= 1
    /\ recNo < Len(files[fileNo])
    /\ UNCHANGED files
    /\ Ingest(files[fileNo][recNo + 1])

\* the last file is exhausted: the command exits 0
Exhausted ==
    /\ pc = "reading"
    /\ fileNo = NumFiles
    /\ AtEOF
    /\ pc' = "exit0"
    /\ UNCHANGED <<db, cache, files, fileNo, recNo, run, error, db1, error1, last>>
    /\ UNCHANGED RowVars

\* the command is invoked again with the same arguments: a new process (empty
\* cache) on the database file the first one left
Rerun ==
    /\ run = 1
    /\ pc \in {"exit0", "raised"}
    /\ run' = 2
    /\ pc' = "reading"
    /\ fileNo' = 0
    /\ recNo' = 0
    /\ db1' = db
    /\ error1' = error
    /\ error' = "none"
    /\ cache' = EmptyFn
    /\ last' = <<>>
    /\ UNCHANGED <<db, files>>
    /\ UNCHANGED RowVars

Next == OpenNext \/ Record \/ Replay \/ Exhausted \/ Rerun

Spec == Init /\ [][Next]_vars

(***************************************************************************)
(* SpecRow: the library interface on one record instance.                  *)
(***************************************************************************)
ParamNames == {"with_http_headers", "with_payload"}

\* every way to write a call of as_dict(self, with_http_headers, with_payload)
Calls ==
    {Call(a, k) : a \in SeqsUpTo(BOOLEAN, 2), k \in SeqsUpTo(ParamNames \X BOOLEAN, 2)}

ValidCall(call) ==
    /\ Len(call.args) + Len(call.kwargs) <= 2
    /\ \A i, j \in DOMAIN call.kwargs : call.kwargs[i][1] = call.kwargs[j][1] => i = j
    /\ Len(call.args) >= 1 => \A i \in DOMAIN call.kwargs : call.kwargs[i][1] = "with_payload"

ExtraPairs == {<<"WARC-Concurrent-To", "urn:1">>, <<"WARC-Concurrent-To", "urn:2">>}

RowRecord(t, extra, h, b) ==
    [rec_type |-> t,
     rec_headers |-> << <<"WARC-Record-ID", "urn:1">> >> \o extra,
     http_headers |-> h,
     content |-> b]

Contents == SeqsUpTo({"x", "y"}, MaxPayloadLen) \ {<<>>}

\* the instances of SpecRow: a warcinfo record, or a request record with or
\* without HTTP envelope that may repeat WARC-Concurrent-To; at least one byte
\* of content
RowRecords ==
    {RowRecord("warcinfo", <<>>, NoHttp, b) : b \in Contents}
    \cup {RowRecord("request", extra, h, b) :
            extra \in SeqsUpTo(ExtraPairs, MaxExtraHeaders),
            h \in {NoHttp, Http(<<>>), Http(HttpPairs)},
            b \in Contents}

\* the database file as an earlier import of one warcinfo record left it
SeedStore ==
    iadd(EmptyStore, EmptyFn, <<"x">>, <<0, 0, 0>>,
         ArchiveRecord("warcinfo", "urn:2", "urn:2")).db

\* identity of the one instance (ArcWarcRecord hashes by identity)
RowId == <<0, 1, 1>>

InitRow ==
    /\ db \in {EmptyStore, SeedStore}
    /\ cache = EmptyFn
    /\ files = [f \in 1..NumFiles |-> <<>>]
    /\ fileNo = 0
    /\ recNo = 0
    /\ run = 1
    /\ pc = "api"
    /\ error = "none"
    /\ db1 = EmptyStore
    /\ error1 = "none"
    /\ last = <<>>
    /\ rec \in RowRecords
    /\ stream = rec.content
    /\ ret = <<>>
    /\ ncalls = 0
    /\ nreads = 0
    /\ derived = EmptyFn

Flags(call) == <<Bind(call, "with_http_headers", 1), Bind(call, "with_payload", 2)>>

Remember(call, row) ==
    IF Flags(call) \in DOMAIN derived THEN derived ELSE Update(derived, Flags(call), row)

\* r.as_dict(...) called by library code, written as `call`
ApiAsDict ==
    /\ pc = "api"
    /\ ncalls < MaxCalls
    /\ \E call \in Calls :
        /\ ValidCall(call)
        /\ LET a == as_dict(cache, stream, RowId, rec, call)
           IN /\ cache' = a.cache
              /\ stream' = a.stream
              /\ nreads' = nreads + a.reads
              /\ derived' = Remember(call, a.ret)
              /\ ret' = << [call |-> call,
                            with_http_headers |-> Flags(call)[1],
                            with_payload |-> Flags(call)[2],
                            row |-> a.ret,
                            reads |-> a.reads,
                            error |-> "none",
                            drained |-> nreads > 0,
                            first |-> IF Flags(call) \in DOMAIN derived
                                      THEN <<derived[Flags(call)]>> ELSE <<>>] >>
    /\ ncalls' = ncalls + 1
    /\ UNCHANGED <<db, files, fileNo, recNo, run, pc, error, db1, error1, last, rec>>

\* db += r called by library code on the same instance
ApiAdd ==
    /\ pc = "api"
    /\ ncalls < MaxCalls
    /\ LET o == iadd(db, cache, stream, RowId, rec)
       IN /\ db' = o.db
          /\ cache' = o.cache
          /\ stream' = o.stream
          /\ error' = o.error
          /\ nreads' = nreads + o.reads
          /\ derived' = IF o.call = <<>> THEN derived ELSE Remember(o.call[1], o.row[1])
          /\ last' = Outcome(rec, db, o)
    /\ ncalls' = ncalls + 1
    /\ UNCHANGED <<files, fileNo, recNo, run, pc, db1, error1, rec, ret>>

NextRow == ApiAsDict \/ ApiAdd

SpecRow == InitRow /\ [][NextRow]_vars

(***************************************************************************)
(* Properties.                                                             *)
(***************************************************************************)
Pk == "WARC-Record-ID"

IdOf(r) == DictOf(r.rec_headers)[Pk]

\* record r carries header `name` with the WARC-Record-ID of record q
Names(r, name, q) ==
    \E i \in DOMAIN r.rec_headers : \E j \in DOMAIN q.rec_headers :
        /\ r.rec_headers[i][1] = name
        /\ q.rec_headers[j][1] = Pk
        /\ r.rec_headers[i][2] = q.rec_headers[j][2]

\* records the current run has passed to db += r
Processed ==
    IF fileNo = 0 THEN 0
    ELSE IF fileNo = 1 THEN recNo ELSE Len(files[1]) + recNo

\* the row __iadd__ derives from a new instance of r
ExpectedRow(r) ==
    record_as_dict(r, r.rec_type \in {"request", "response"}, TRUE, r.content)

\* the records whose insert went through: all of to_import but the one that
\* ended the first run, if one did
Committed ==
    IF (run = 1 /\ pc = "raised") \/ (run = 2 /\ error1 # "none")
    THEN SubSeq(to_import, 1, Len(to_import) - 1)
    ELSE to_import

RowsWithPk(t, v) == {j \in DOMAIN db[t].rows : db[t].rows[j][Pk] = v}

\* row `p` names in column `col` the WARC-Record-ID of a row of table `t`
Resolves(p, col, t) ==
    /\ col \in DOMAIN p
    /\ \E j \in DOMAIN db[t].rows : db[t].rows[j][Pk] = p[col]

\* foreign-key edges of the dispatch table of the specification, section 4.3
DispatchFks(t) ==
    IF t = "warcinfo" THEN <<>>
    ELSE IF t = "request" THEN <<FkWarcinfo>>
    ELSE IF t = "response" THEN <<FkWarcinfo, FkConcurrent("request")>>
    ELSE IF t = "metadata" THEN <<FkWarcinfo, FkConcurrent("response")>>
    ELSE <<FkWarcinfo, FkConcurrent("metadata")>>

\* C1: when the second import of the same files into the same database has
\* ended, every table holds exactly the rows (same rows, same count, same
\* order) the first import left, and the second import ended as the first did.
C1_Idempotent ==
    (run = 2 /\ pc \in {"exit0", "raised"}) =>
        /\ \A t \in TableNames :
            /\ db[t].rows = db1[t].rows
            /\ Len(db[t].rows) = Len(db1[t].rows)
        /\ error = error1

\* a second import that ran to the end over an archive that repeats a record
\* ID within one table, with rows in three tables
C1_Witness ==
    /\ run = 2
    /\ pc = "exit0"
    /\ \E i, j \in DOMAIN to_import :
        /\ i < j
        /\ to_import[i].rec_type = to_import[j].rec_type
        /\ IdOf(to_import[i]) = IdOf(to_import[j])
        /\ to_import[i] # to_import[j]
    /\ Len(db["warcinfo"].rows) + Len(db["request"].rows) + Len(db["response"].rows) = 3

\* C2: after db += r for a record r of a supported type, the operation has
\* returned the store (no exception), has made exactly one insert call, against
\* the table named r.rec_type with that type's foreign keys, and has left the
\* rows of the four other tables as they were.
C2_TypeRouting ==
    (last # <<>> /\ last[1].rec.rec_type \in Supported) =>
        /\ last[1].error = "none"
        /\ last[1].inserts =
             << [table |-> last[1].rec.rec_type,
                 foreign_keys |-> DispatchFks(last[1].rec.rec_type)] >>
        /\ \A t \in TableNames \ {last[1].rec.rec_type} :
             db[t].rows = last[1].before[t].rows

\* C3: after db += r for a record r of an unsupported type, the operation has
\* raised the classification error, the run has halted, no insert was called
\* and the whole store is as it was before the call.
C3_UnsupportedRejected ==
    (last # <<>> /\ last[1].rec.rec_type \notin Supported) =>
        /\ last[1].error = "ValueError"
        /\ pc = "raised"
        /\ last[1].inserts = <<>>
        /\ db = last[1].before

\* an unsupported record rejected by a store that already holds rows
C3_Witness ==
    /\ last # <<>>
    /\ last[1].rec.rec_type = "revisit"
    /\ last[1].error = "ValueError"
    /\ Len(db["warcinfo"].rows) >= 1
    /\ Len(db["request"].rows) >= 1

\* C4: after db += r for a response record r, whatever the store held before
\* (referenced rows or tables missing included), no exception was raised and
\* the response table holds a row with r's WARC-Record-ID.
C4_OutOfOrderTolerated ==
    (last # <<>> /\ last[1].rec.rec_type = "response") =>
        /\ last[1].error = "none"
        /\ RowsWithPk("response", IdOf(last[1].rec)) # {}

\* C6: on a new database, once the import has added a warcinfo record W, then
\* a request record Q naming W, then a response record P naming W and Q, no
\* insert has failed and the stored response row of P's ID names an existing
\* warcinfo row and an existing request row.
C6_ChainResolves ==
    (/\ Len(to_import) >= 3
     /\ Processed = 3
     /\ to_import[1].rec_type = "warcinfo"
     /\ to_import[2].rec_type = "request"
     /\ to_import[3].rec_type = "response"
     /\ Names(to_import[2], "WARC-Warcinfo-ID", to_import[1])
     /\ Names(to_import[3], "WARC-Warcinfo-ID", to_import[1])
     /\ Names(to_import[3], "WARC-Concurrent-To", to_import[2]))
    =>
        /\ error = "none"
        /\ pc # "raised"
        /\ RowsWithPk("response", IdOf(to_import[3])) # {}
        /\ \A j \in RowsWithPk("response", IdOf(to_import[3])) :
            /\ Resolves(db["response"].rows[j], "WARC-Warcinfo-ID", "warcinfo")
            /\ Resolves(db["response"].rows[j], "WARC-Concurrent-To", "request")

\* the chain W, Q, P just imported in the first run, W and Q of different IDs
C6_Witness ==
    /\ run = 1
    /\ Len(to_import) = 3
    /\ Processed = 3
    /\ to_import[1].rec_type = "warcinfo"
    /\ to_import[2].rec_type = "request"
    /\ to_import[3].rec_type = "response"
    /\ IdOf(to_import[1]) = Str("urn:1")
    /\ IdOf(to_import[2]) = Str("urn:2")
    /\ Names(to_import[3], "WARC-Concurrent-To", to_import[2])
    /\ Len(db["response"].rows) = 1

\* C7: whenever the most recent db += r of a run failed, the run has halted with
\* that error at that record (nothing after it was read), and the store is
\* exactly what the records before it had made it: no rollback, no further row.
C7_AbortNoRollback ==
    (last # <<>> /\ last[1].error # "none") =>
        /\ pc = "raised"
        /\ error = last[1].error
        /\ db = last[1].before
        /\ Processed = Len(to_import)
        /\ to_import[Processed] = last[1].rec

\* a run halted in the second file with rows of both files in the store
C7_Witness ==
    /\ last # <<>>
    /\ last[1].error # "none"
    /\ pc = "raised"
    /\ fileNo = 2
    /\ Len(files[1]) >= 1
    /\ recNo >= 2
    /\ \E t \in TableNames : Len(db[t].rows) >= 2

\* C8: for every table and record ID, the table holds a row of that ID iff an
\* inserted record of that type carried it, holds exactly one, and that row is
\* the row of the earliest such record of the stream (files in the order
\* given, records in file order).
C8_FirstWriteWins ==
    \A t \in TableNames : \A id \in Ids :
        LET P == {i \in DOMAIN Committed :
                    Committed[i].rec_type = t /\ IdOf(Committed[i]) = Str(id)}
        IN IF P = {}
           THEN RowsWithPk(t, Str(id)) = {}
           ELSE /\ Cardinality(RowsWithPk(t, Str(id))) = 1
                /\ \A j \in RowsWithPk(t, Str(id)) :
                     db[t].rows[j] =
                        ExpectedRow(Committed[CHOOSE i \in P : \A k \in P : i <= k])

\* two records of one table and one ID but different fields, the later one in
\* the second file, both inserted
C8_Witness ==
    /\ pc = "exit0"
    /\ \E i \in DOMAIN files[1] : \E j \in DOMAIN files[2] :
        /\ files[1][i].rec_type = files[2][j].rec_type
        /\ files[1][i].rec_type \in Supported
        /\ IdOf(files[1][i]) = IdOf(files[2][j])
        /\ files[1][i] # files[2][j]

\* C5: whenever as_dict has returned, (a) if the payload was asked for, the
\* content stream has been read exactly once in the life of the instance and
\* the payload field is the record's original content, and (b) if the same
\* flags had been derived before on this instance, the row is the one returned
\* then and the stream was not read.
C5_PayloadOnceMemoized ==
    ret # <<>> =>
        /\ ret[1].with_payload =>
            /\ nreads = 1
            /\ ret[1].row["payload"] = Bytes(rec.content)
        /\ ret[1].first # <<>> =>
            /\ ret[1].row = ret[1].first[1]
            /\ ret[1].reads = 0

\* C9: a row __iadd__ has written has the http_headers field (the JSON list, or
\* the null marker without HTTP envelope) iff the record is a request or a
\* response, has the payload field, and has every WARC header of the record
\* under its name with its value.
C9_RowShape ==
    (/\ last # <<>>
     /\ last[1].error = "none"
     /\ last[1].rec.rec_type \in Supported
     /\ Len(db[last[1].rec.rec_type].rows)
            > Len(last[1].before[last[1].rec.rec_type].rows))
    =>
        LET r == last[1].rec
            row == db[r.rec_type].rows[Len(db[r.rec_type].rows)]
        IN /\ r.rec_type \in {"request", "response"} =>
                /\ "http_headers" \in DOMAIN row
                /\ row["http_headers"] =
                     IF r.http_headers.present
                     THEN headers_to_json(r.http_headers) ELSE None
           /\ r.rec_type \in {"warcinfo", "metadata", "resource"} =>
                "http_headers" \notin DOMAIN row
           /\ "payload" \in DOMAIN row
           /\ \A i \in DOMAIN r.rec_headers :
                /\ r.rec_headers[i][1] \in DOMAIN row
                /\ row[r.rec_headers[i][1]] = Str(r.rec_headers[i][2])

\* C10: whenever as_dict was asked for the payload of an instance whose content
\* stream had been read before, with flags not derived before, it has failed
\* with StreamExhausted.
C10_ExhaustedIsError ==
    (/\ ret # <<>>
     /\ ret[1].with_payload
     /\ ret[1].drained
     /\ ret[1].first = <<>>)
    => ret[1].error = "StreamExhausted"

====
